---- MODULE Spec2Model ----
(***************************************************************************)
(* Model of src/app.py: one browser session of the Streamlit travel        *)
(* planner.  Every widget interaction re-runs main() from the top; a run   *)
(* handles the "Generate Itinerary" button, geocodes the two text inputs   *)
(* through the cached geocode_location, and draws the map block.           *)
(*                                                                         *)
(* A run is split at its external calls: the position of the script is pc, *)
(* and each call of geolocator.geocode is one step whose answer is chosen  *)
(* by the provider.                                                        *)
(*                                                                         *)
(* Python values: None in a text slot is the string "None" (NoText), None  *)
(* in a Location slot is the empty tuple (None); a geopy Location is the   *)
(* tuple <<latitude, longitude>>.                                          *)
(***************************************************************************)
EXTENDS Integers, Sequences, FiniteSets, TLC

VARIABLES
    starting_location,       \* value of the "Starting Location" text input
    destination,             \* value of the "Destination" text input
    button,                  \* st.sidebar.button("Generate Itinerary") in this run
    itinerary,               \* st.session_state.itinerary
    response,                \* what model.generate_content gave in this run
    sidebar_error,           \* "Please enter a destination." shown in this run
    cache,                   \* st.cache_data store of geocode_location
    now,                     \* wall clock, in seconds
    pc,                      \* position of the script run
    call,                    \* the current / latest geocode_location call
    starting_loc_coords,     \* local of main()
    destination_loc_coords,  \* local of main()
    screen                   \* what the map block of this run put on the page

vars == <<starting_location, destination, button, itinerary, response,
          sidebar_error, cache, now, pc, call, starting_loc_coords,
          destination_loc_coords, screen>>

----------------------------------------------------------------------------
(* Bounds and program constants *)

MaxTicks == 2

ttl == 3600

retries == 3

zoom_start == 10

----------------------------------------------------------------------------
(* Values *)

None == <<>>

NoText == "None"

\* Text the user can type into either location input.
Queries == {"", "X", "Y"}

\* What geolocator.geocode can return as a Location.
Locations == {<<1, 1>>, <<2, 2>>, <<91, 2>>}

latitude(loc) == loc[1]

longitude(loc) == loc[2]

\* Exceptions an attempt can raise.  "Exception" stands for any exception
\* that is an instance of neither class named by the inner except clause.
Exceptions ==
    {"GeocoderTimedOut", "GeocoderUnavailable", "GeocoderQueryError",
     "Exception"}

\* The exception classes imported from geopy.exc, each as the set of raised
\* exceptions that are instances of it.  In geopy.exc GeocoderServiceError
\* is the base class of the service failures: GeocoderTimedOut (timeout),
\* GeocoderUnavailable (service unavailable) and GeocoderQueryError (the
\* request was bad) all derive from it.
GeocoderTimedOut == {"GeocoderTimedOut"}

GeocoderServiceError ==
    {"GeocoderTimedOut", "GeocoderUnavailable", "GeocoderQueryError"}

\* Outcome of one geolocator.geocode call: a Location, None (no match), or
\* a raised exception.
Returned == [raised : {FALSE}, value : Locations \cup {None}, exc : {"-"}]

Raised == [raised : {TRUE}, value : {None}, exc : Exceptions]

ProviderOutcomes == Returned \cup Raised

\* Outcome of model.generate_content(prompt): response.text, or an exception.
GenerationFailed == "<exception>"

GenAIOutcomes == {"", "Plan A", "Plan B", GenerationFailed}

\* generate_itinerary was not called in this run.
NotCalled == "<not called>"

ErrorText == "Error: Could not generate itinerary."

\* Python truthiness of a str.
TruthyText(s) == s # "" /\ s # NoText

\* Python truthiness of a Location-or-None.
TruthyLoc(loc) == loc # None

----------------------------------------------------------------------------
(* generate_itinerary *)

generate_itinerary(answer) ==
    IF answer = GenerationFailed THEN ErrorText ELSE answer

----------------------------------------------------------------------------
(* st.cache_data(ttl=3600) around geocode_location *)

NoEntry == [value |-> None, stored |-> -1]

\* Mutant: the ttl is never applied.
Fresh_NoExpiry(entry, t) == entry.stored >= 0

\* A stored entry younger than ttl.
Fresh(entry, t) == entry.stored >= 0 /\ t < entry.stored + ttl

\* The cache key is the argument the call was made with.
CacheKey(location_name) == location_name

\* Every value the function returns is stored, None included.
CacheWrite(c, location_name, value, t) ==
    [c EXCEPT ![CacheKey(location_name)] = [value |-> value, stored |-> t]]

----------------------------------------------------------------------------
(* geocode_location: one iteration of the retry loop *)

\* Mutant: the inner clause catches every exception.
IsRetryable_CatchAll(exc) == TRUE

IsRetryable(exc) == exc \in GeocoderTimedOut \cup GeocoderServiceError

\* Mutant: off by one in the last-attempt test.
LastAttempt_OffByOne(attempt) == ~(attempt < retries)

LastAttempt(attempt) == ~(attempt < retries - 1)

\* ctl: "return" leaves the function, "continue" goes to the next iteration.
Attempt(attempt, outcome) ==
    IF ~outcome.raised
    THEN [ctl |-> "return", value |-> outcome.value, notice |-> "none"]
    ELSE IF IsRetryable(outcome.exc)
    THEN IF ~LastAttempt(attempt)
         THEN [ctl |-> "continue", value |-> None, notice |-> "none"]
         ELSE [ctl |-> "return", value |-> None, notice |-> "warning"]
    ELSE [ctl |-> "return", value |-> None, notice |-> "error"]

\* log: per geolocator.geocode call made so far, the exception it raised, or
\* "-" when it returned.
NoCall == [who |-> "-", location_name |-> "", hit |-> FALSE, attempt |-> 0,
           log |-> <<>>, notice |-> "none", returned |-> FALSE,
           result |-> None]

----------------------------------------------------------------------------
(* Map block *)

NoMap == [location |-> <<>>, zoom_start |-> 0, markers |-> <<>>,
          fit_bounds |-> <<>>]

BlankScreen == [map |-> NoMap, info |-> FALSE, markdown |-> NoText,
                rendered |-> FALSE]

\* Mutant: the starting location takes priority as the centre.
map_center_StartFirst(s, d) ==
    IF TruthyLoc(s) THEN <<latitude(s), longitude(s)>>
    ELSE IF TruthyLoc(d) THEN <<latitude(d), longitude(d)>>
    ELSE <<0, 0>>

map_center(s, d) ==
    IF TruthyLoc(d) THEN <<latitude(d), longitude(d)>>
    ELSE IF TruthyLoc(s) THEN <<latitude(s), longitude(s)>>
    ELSE <<0, 0>>

StartMarker(s, tip) ==
    IF TruthyLoc(s)
    THEN << [location |-> <<latitude(s), longitude(s)>>, tooltip |-> tip,
             icon |-> "default"] >>
    ELSE << >>

DestMarker(d, tip) ==
    IF TruthyLoc(d)
    THEN << [location |-> <<latitude(d), longitude(d)>>, tooltip |-> tip,
             icon |-> "red"] >>
    ELSE << >>

Markers(s, d, stip, dtip) == StartMarker(s, stip) \o DestMarker(d, dtip)

FitBounds(s, d) ==
    IF TruthyLoc(s) /\ TruthyLoc(d)
    THEN << <<latitude(s), longitude(s)>>, <<latitude(d), longitude(d)>> >>
    ELSE << >>

\* Mutant: the map is drawn only when both are found.
ShowMap_Both(s, d) == TruthyLoc(s) /\ TruthyLoc(d)

ShowMap(s, d) == TruthyLoc(s) \/ TruthyLoc(d)

ShowItinerary(s, d, text) == ShowMap(s, d) /\ TruthyText(text)

Render(s, d, stip, dtip, text) ==
    [map |-> IF ShowMap(s, d)
             THEN [location |-> map_center(s, d), zoom_start |-> zoom_start,
                   markers |-> Markers(s, d, stip, dtip),
                   fit_bounds |-> FitBounds(s, d)]
             ELSE NoMap,
     info |-> ~ShowMap(s, d),
     markdown |-> IF ShowItinerary(s, d, text) THEN text ELSE NoText,
     rendered |-> TRUE]

----------------------------------------------------------------------------
(* Initial state: the first run of the script, inputs empty, at line 92 *)

Init ==
    /\ starting_location = ""
    /\ destination = ""
    /\ button = FALSE
    /\ itinerary = NoText
    /\ response = NotCalled
    /\ sidebar_error = FALSE
    /\ cache = [q \in Queries |-> NoEntry]
    /\ now = 0
    /\ pc = "geocode_start"
    /\ call = NoCall
    /\ starting_loc_coords = None
    /\ destination_loc_coords = None
    /\ screen = BlankScreen

----------------------------------------------------------------------------
(* Top of a run: widgets and the button *)

\* Mutant: the destination is not checked.
MustGenerate_NoGuard(pressed, dest) == pressed

MustGenerate(pressed, dest) == pressed /\ TruthyText(dest)

BeginRun(s, d, pressed, answer) ==
    /\ pc = "idle"
    /\ starting_location' = s
    /\ destination' = d
    /\ button' = pressed
    /\ response' = IF MustGenerate(pressed, d) THEN answer ELSE NotCalled
    /\ sidebar_error' = (pressed /\ ~TruthyText(d))
    /\ itinerary' = IF MustGenerate(pressed, d)
                    THEN generate_itinerary(answer)
                    ELSE itinerary
    /\ call' = NoCall
    /\ starting_loc_coords' = None
    /\ destination_loc_coords' = None
    /\ screen' = BlankScreen
    /\ pc' = "geocode_start"
    /\ UNCHANGED <<cache, now>>

EditStartingLocation ==
    \E s \in Queries \ {starting_location} :
        BeginRun(s, destination, FALSE, GenerationFailed)

EditDestination ==
    \E d \in Queries \ {destination} :
        BeginRun(starting_location, d, FALSE, GenerationFailed)

\* Any other widget (budget, dates, interests) changed.
EditOtherInput ==
    BeginRun(starting_location, destination, FALSE, GenerationFailed)

PressGenerate ==
    \E answer \in GenAIOutcomes :
        BeginRun(starting_location, destination, TRUE, answer)

----------------------------------------------------------------------------
(* Geocoding the two inputs *)

\* Mutant: the input is geocoded even when empty.
ShouldGeocode_Always(text) == TRUE

ShouldGeocode(text) == TruthyText(text)

\* The function returned `value` to main(): assign it and move on.
Assign(who, value) ==
    IF who = "start"
    THEN /\ starting_loc_coords' = value
         /\ pc' = "geocode_dest"
         /\ UNCHANGED destination_loc_coords
    ELSE /\ destination_loc_coords' = value
         /\ pc' = "create_map"
         /\ UNCHANGED starting_loc_coords

\* Entering the cached function: a fresh entry is returned without running
\* the body, otherwise the body starts its loop.
CallGeocode(who, location_name) ==
    LET entry == cache[CacheKey(location_name)] IN
    IF Fresh(entry, now)
    THEN /\ call' = [NoCall EXCEPT !.who = who,
                                   !.location_name = location_name,
                                   !.hit = TRUE, !.returned = TRUE,
                                   !.result = entry.value]
         /\ Assign(who, entry.value)
         /\ UNCHANGED cache
    ELSE /\ call' = [NoCall EXCEPT !.who = who,
                                   !.location_name = location_name]
         /\ pc' = "lookup"
         /\ UNCHANGED <<cache, starting_loc_coords, destination_loc_coords>>

GeocodeStart ==
    /\ pc = "geocode_start"
    /\ IF ShouldGeocode(starting_location)
       THEN CallGeocode("start", starting_location)
       ELSE /\ Assign("start", None)
            /\ UNCHANGED <<cache, call>>
    /\ UNCHANGED <<starting_location, destination, button, itinerary,
                   response, sidebar_error, now, screen>>

GeocodeDest ==
    /\ pc = "geocode_dest"
    /\ IF ShouldGeocode(destination)
       THEN CallGeocode("dest", destination)
       ELSE /\ Assign("dest", None)
            /\ UNCHANGED <<cache, call>>
    /\ UNCHANGED <<starting_location, destination, button, itinerary,
                   response, sidebar_error, now, screen>>

\* One geolocator.geocode call and what the loop does with its outcome.
Lookup ==
    /\ pc = "lookup"
    /\ \E outcome \in ProviderOutcomes :
        LET r == Attempt(call.attempt, outcome)
            tried == [call EXCEPT !.log = Append(@, outcome.exc)]
        IN  IF r.ctl = "continue" /\ call.attempt + 1 < retries
            THEN /\ call' = [tried EXCEPT !.attempt = @ + 1]
                 /\ UNCHANGED <<cache, pc, starting_loc_coords,
                                destination_loc_coords>>
            ELSE /\ call' = [tried EXCEPT !.returned = TRUE,
                                          !.result = r.value,
                                          !.notice = r.notice]
                 /\ cache' = CacheWrite(cache, call.location_name, r.value, now)
                 /\ Assign(call.who, r.value)
    /\ UNCHANGED <<starting_location, destination, button, itinerary,
                   response, sidebar_error, now, screen>>

----------------------------------------------------------------------------
(* Drawing the map block ends the run *)

CreateMap ==
    /\ pc = "create_map"
    /\ screen' = Render(starting_loc_coords, destination_loc_coords,
                        starting_location, destination, itinerary)
    /\ pc' = "idle"
    /\ UNCHANGED <<starting_location, destination, button, itinerary,
                   response, sidebar_error, cache, now, call,
                   starting_loc_coords, destination_loc_coords>>

----------------------------------------------------------------------------
(* Time passes between runs, half a ttl at a time *)

Tick ==
    /\ pc = "idle"
    /\ now < MaxTicks * (ttl \div 2)
    /\ now' = now + (ttl \div 2)
    /\ UNCHANGED <<starting_location, destination, button, itinerary,
                   response, sidebar_error, cache, pc, call,
                   starting_loc_coords, destination_loc_coords, screen>>

Next ==
    \/ EditStartingLocation
    \/ EditDestination
    \/ EditOtherInput
    \/ PressGenerate
    \/ GeocodeStart
    \/ GeocodeDest
    \/ Lookup
    \/ CreateMap
    \/ Tick

Spec == Init /\ [][Next]_vars

----------------------------------------------------------------------------
(* Properties *)

\* The failures the retry loop catches and retries.
RetryableFailures ==
    {"GeocoderTimedOut", "GeocoderUnavailable", "GeocoderQueryError"}

\* The two failures the specification names as retryable: timeout and
\* service-unavailable.
TimeoutOrUnavailable == {"GeocoderTimedOut", "GeocoderUnavailable"}

\* An entry for q that a call at the current time would be answered from.
HasLiveEntry(q) == cache[q].stored >= 0 /\ now < cache[q].stored + 3600

\* The latest geocode_location call ran its body and has returned.
BodyReturned == call.who # "-" /\ call.returned /\ ~call.hit

InRange(loc) ==
    /\ latitude(loc) >= -90 /\ latitude(loc) <= 90
    /\ longitude(loc) >= -180 /\ longitude(loc) <= 180

\* C1: after a resolve that ends without a coordinate, the cache holds no
\* live entry for that query, so the next resolve looks it up afresh.
C1_FailuresNotCached ==
    (BodyReturned /\ call.result = None) => ~HasLiveEntry(call.location_name)

\* C2: whenever a run has drawn its page and the session holds a non-empty
\* itinerary, that itinerary text is on the page, whatever the two
\* geocode results were.
C2_ItineraryAlwaysDisplayed ==
    (screen.rendered /\ itinerary # NoText /\ itinerary # "")
        => screen.markdown = itinerary

C4_OnlyTimeoutOrUnavailableRetried ==
    /\ \A i \in 1..Len(call.log) :
          (call.log[i] # "-" /\ call.log[i] \notin TimeoutOrUnavailable)
              => /\ i = Len(call.log)
                 /\ pc # "lookup"
                 /\ call.returned
                 /\ call.notice = "error"
                 /\ call.result = None
    /\ \A i \in 1..(Len(call.log) - 1) : call.log[i] \in TimeoutOrUnavailable

\* C5: an empty starting location or destination gives no coordinate,
\* without any lookup and without touching the cache.
C5_EmptyIsUnspecified ==
    [][ /\ (pc = "geocode_start" /\ starting_location = "")
            => /\ starting_loc_coords' = None
               /\ pc' = "geocode_dest"
               /\ cache' = cache
               /\ call' = call
        /\ (pc = "geocode_dest" /\ destination = "")
            => /\ destination_loc_coords' = None
               /\ pc' = "create_map"
               /\ cache' = cache
               /\ call' = call ]_vars

C5_Witness ==
    /\ pc = "create_map"
    /\ starting_location = ""
    /\ destination = ""
    /\ starting_loc_coords = None
    /\ destination_loc_coords = None
    /\ call = NoCall
    /\ cache["X"].stored >= 0

C6_ResolveOf(who, q) ==
    IF HasLiveEntry(q)
    THEN /\ pc' # "lookup"
         /\ cache' = cache
         /\ call'.hit /\ call'.log = <<>>
         /\ IF who = "start"
            THEN starting_loc_coords' = cache[q].value
            ELSE destination_loc_coords' = cache[q].value
    ELSE /\ pc' = "lookup"
         /\ call'.location_name = q
         /\ call'.log = <<>>
         /\ ~call'.hit

\* C6: a resolve of q looks up the provider exactly when the cache has no
\* live entry under q; with a live entry it returns the stored value with
\* no lookup; and an entry changes only by a resolve of its own query.
C6_CacheKeyedByQuery ==
    [][ /\ (pc = "geocode_start" /\ starting_location # "")
            => C6_ResolveOf("start", starting_location)
        /\ (pc = "geocode_dest" /\ destination # "")
            => C6_ResolveOf("dest", destination)
        /\ \A q \in Queries :
              cache'[q] # cache[q]
                  => /\ pc = "lookup"
                     /\ call.location_name = q
                     /\ cache'[q].stored = now ]_vars

C6_Witness ==
    /\ call.hit
    /\ call.location_name = "Y"
    /\ call.result \in Locations
    /\ cache["Y"].stored < now
    /\ cache["X"].stored >= 0
    /\ ~HasLiveEntry("X")

\* C7: with both coordinates present the map is centred on the destination,
\* has the start marker then the destination marker, only the latter
\* coloured, and fits the bounds [start, dest]; in any map the coloured
\* destination marker comes last.
C7_BothPresent ==
    screen.rendered =>
        /\ (starting_loc_coords # None /\ destination_loc_coords # None)
            => /\ screen.map.location = destination_loc_coords
               /\ Len(screen.map.markers) = 2
               /\ screen.map.markers[1].location = starting_loc_coords
               /\ screen.map.markers[1].icon # "red"
               /\ screen.map.markers[2].location = destination_loc_coords
               /\ screen.map.markers[2].icon = "red"
               /\ screen.map.fit_bounds
                     = <<starting_loc_coords, destination_loc_coords>>
        /\ \A i \in 1..Len(screen.map.markers) :
              screen.map.markers[i].icon = "red" => i = Len(screen.map.markers)

C7_Witness ==
    /\ screen.rendered
    /\ starting_loc_coords = <<1, 1>>
    /\ destination_loc_coords = <<2, 2>>
    /\ Len(screen.map.markers) = 2

C8_OnePresent(loc) ==
    /\ screen.map.location = loc
    /\ screen.map.zoom_start = 10
    /\ Len(screen.map.markers) = 1
    /\ screen.map.markers[1].location = loc
    /\ screen.map.fit_bounds = <<>>
    /\ ~screen.info

\* C8: with exactly one coordinate present the map is centred on it at
\* zoom 10 with that single marker and no bounds fit; with none present no
\* map is built and the prompt is shown.
C8_OneOrNone ==
    screen.rendered =>
        /\ (starting_loc_coords # None /\ destination_loc_coords = None)
            => C8_OnePresent(starting_loc_coords)
        /\ (starting_loc_coords = None /\ destination_loc_coords # None)
            => C8_OnePresent(destination_loc_coords)
        /\ (starting_loc_coords = None /\ destination_loc_coords = None)
            => (screen.map = NoMap /\ screen.info)

C8_Witness ==
    /\ screen.rendered
    /\ starting_loc_coords = <<1, 1>>
    /\ destination_loc_coords = None
    /\ destination # ""
    /\ Len(screen.map.markers) = 1

\* C9: a coordinate outside [-90,90] x [-180,180] never becomes the map
\* centre, a marker or part of the bounds.
C9_OutOfRangeIsAbsent ==
    (screen.rendered /\ screen.map # NoMap) =>
        /\ InRange(screen.map.location)
        /\ \A i \in 1..Len(screen.map.markers) :
              InRange(screen.map.markers[i].location)
        /\ \A i \in 1..Len(screen.map.fit_bounds) :
              InRange(screen.map.fit_bounds[i])

C10_Press == pc = "idle" /\ pc' = "geocode_start" /\ button'

C10_Stored ==
    IF response' = "<exception>"
    THEN "Error: Could not generate itinerary."
    ELSE response'

\* C10: a press of "Generate Itinerary" with an empty destination calls no
\* text generation and keeps the stored itinerary; the stored itinerary
\* changes only by a press with a destination, to the returned text or, on
\* failure, to the fixed error string.
C10_ItineraryOnlyByGenerate ==
    [][ /\ (C10_Press /\ destination' = "")
            => (response' = NotCalled /\ itinerary' = itinerary)
        /\ (C10_Press /\ destination' # "")
            => (response' # NotCalled /\ itinerary' = C10_Stored)
        /\ itinerary' # itinerary
            => (C10_Press /\ destination' # "") ]_vars

C10_Witness ==
    /\ button
    /\ destination = ""
    /\ sidebar_error
    /\ response = NotCalled
    /\ itinerary = "Plan A"

====
